---- MODULE Spec2Model ----
(***************************************************************************)
(* A model of src/service.rs of mbtileserver-rs: the request handler       *)
(* get_service, which routes a request path to the tile dispatcher, to the *)
(* metadata assembler (listing, description, map preview) or to not_found. *)
(*                                                                         *)
(* Text is modelled as a sequence of tokens (a token is a TLA+ string that *)
(* stands for a run of characters holding no '/'); a path is the sequence  *)
(* of its segments, the text between the slashes, so that the path         *)
(* /services/a/tiles/0/0/0.png is                                          *)
(*   << <<"services">>, <<"a">>, <<"tiles">>, <<"0">>, <<"0">>,            *)
(*      <<"0", ".", "png">> >>.                                            *)
(* A u32 is the pair <<hi, lo>> of its 16-bit halves, so that every        *)
(* intermediate value of the 32-bit arithmetic stays a small integer.      *)
(***************************************************************************)
EXTENDS Integers, Sequences, FiniteSets, TLC

(***************************************************************************)
(* Bounds of the model.                                                    *)
(***************************************************************************)
\* zoom levels 0..MaxZ are requested (31, 32 and 33 lie outside [0,30])
MaxZ == 33
\* a tile-shaped path carries up to MaxTail further segments after <y>.<fmt>
MaxTail == 1
\* the other paths have 1..MaxSegs segments
MaxSegs == 3

(***************************************************************************)
(* Text helpers.                                                           *)
(***************************************************************************)
DigitChars == {"0", "1", "2", "3", "4", "5", "6", "7", "8", "9"}

DigitVal(c) ==
    CASE c = "0" -> 0 [] c = "1" -> 1 [] c = "2" -> 2 [] c = "3" -> 3
      [] c = "4" -> 4 [] c = "5" -> 5 [] c = "6" -> 6 [] c = "7" -> 7
      [] c = "8" -> 8 [] c = "9" -> 9

DigitChar(d) ==
    CASE d = 0 -> "0" [] d = 1 -> "1" [] d = 2 -> "2" [] d = 3 -> "3"
      [] d = 4 -> "4" [] d = 5 -> "5" [] d = 6 -> "6" [] d = 7 -> "7"
      [] d = 8 -> "8" [] d = 9 -> "9"

\* the decimal text of a natural number (the request's way of writing z, x, y)
RECURSIVE Decimal(_)
Decimal(n) ==
    IF n < 10 THEN <<DigitChar(n)>>
    ELSE Decimal(n \div 10) \o <<DigitChar(n % 10)>>

\* the alphabetic tokens of the model: each stands for a run of letters
Words == {"services", "servicesx", "tiles", "map", "a", "b", "c", "d", "u",
          "png", "pbf", "json", "jpg", "JSON"}

\* str::join: the segments with sep between them
RECURSIVE Join(_, _)
Join(segs, sep) ==
    IF Len(segs) = 0 THEN <<>>
    ELSE IF Len(segs) = 1 THEN segs[1]
    ELSE segs[1] \o <<sep>> \o Join(Tail(segs), sep)

\* str::replace on token text: every occurrence of the token by the text
RECURSIVE Replace(_, _, _)
Replace(text, tok, by) ==
    IF Len(text) = 0 THEN <<>>
    ELSE (IF Head(text) = tok THEN by ELSE <<Head(text)>>)
         \o Replace(Tail(text), tok, by)

(***************************************************************************)
(* u32 arithmetic on <<hi, lo>>, hi and lo in 0 .. 2^16 - 1.               *)
(***************************************************************************)
Half == 2 ^ 16

U32(n) == <<n \div Half, n % Half>>

U32Leq(a, b) == a[1] < b[1] \/ (a[1] = b[1] /\ a[2] <= b[2])

\* str::parse::<u32> of a digit string: checked multiply by ten, checked add
RECURSIVE ParseFrom(_, _)
ParseFrom(acc, ds) ==
    IF Len(ds) = 0 THEN [ok |-> TRUE, v |-> acc]
    ELSE LET lo == acc[2] * 10 + DigitVal(Head(ds))
             hi == acc[1] * 10 + (lo \div Half)
         IN  IF hi >= Half THEN [ok |-> FALSE, v |-> <<0, 0>>]
             ELSE ParseFrom(<<hi, lo % Half>>, Tail(ds))

ParseU32(ds) == ParseFrom(<<0, 0>>, ds)

\* 1u32 << z: the shift overflows when z >= 32; a build without overflow
\* checks shifts by z mod 32
Shl1(z) ==
    LET n == z[2] % 32
    IN  [overflow |-> ~U32Leq(z, <<0, 31>>),
         v |-> IF n < 16 THEN <<0, 2 ^ n>> ELSE <<2 ^ (n - 16), 0>>]

\* a - b in u32: overflows when b > a; the wrapped value is a - b mod 2^32
Sub(a, b) ==
    LET borrow == IF a[2] < b[2] THEN 1 ELSE 0
    IN  [overflow |-> ~U32Leq(b, a),
         v |-> <<(a[1] - b[1] - borrow + 2 * Half) % Half,
                 (a[2] - b[2] + Half) % Half>>]

(***************************************************************************)
(* Paths and the route grammar.                                            *)
(***************************************************************************)
IsDigits(seg) == Len(seg) >= 1 /\ \A i \in 1..Len(seg) : seg[i] \in DigitChars

\* the length of the longest prefix of seg (from position i on) made of
\* tokens of the set cls
RECURSIVE Run(_, _, _)
Run(seg, i, cls) ==
    IF i <= Len(seg) /\ seg[i] \in cls THEN 1 + Run(seg, i + 1, cls) ELSE 0

\* (?P<y>\d+)\.(?P<format>[a-zA-Z]+) at the start of a segment; nothing
\* anchors the end of the pattern, so the segment may go on
IsTileFile(seg) ==
    LET n == Run(seg, 1, DigitChars)
    IN  /\ n >= 1
        /\ Len(seg) >= n + 2
        /\ seg[n + 1] = "."
        /\ seg[n + 2] \in Words

SetMax(S) == CHOOSE m \in S : \A n \in S : n <= m

\* TILE_URL_RE.captures(path): ^/services/(.*)/tiles/(\d+)/(\d+)/(\d+)\.([a-zA-Z]+)
\* followed by optional parts and no end anchor.  The greedy .* takes the
\* last /tiles/ after which the rest of the pattern matches.
Captures(path) ==
    LET ks == {k \in 3..(Len(path) - 3) :
                 /\ path[1] = <<"services">>
                 /\ path[k] = <<"tiles">>
                 /\ IsDigits(path[k + 1])
                 /\ IsDigits(path[k + 2])
                 /\ IsTileFile(path[k + 3])}
    IN  IF ks = {} THEN [matched |-> FALSE]
        ELSE LET k == SetMax(ks)
                 f == path[k + 3]
                 n == Run(f, 1, DigitChars)
             IN  [matched   |-> TRUE,
                  tile_path |-> Join(SubSeq(path, 2, k - 1), "/"),
                  z         |-> path[k + 1],
                  x         |-> path[k + 2],
                  y         |-> SubSeq(f, 1, n),
                  format    |-> SubSeq(f, n + 2, n + 1 + Run(f, n + 2, Words))]

\* path.starts_with("/services")
StartsWithServices(path) ==
    /\ Len(path[1]) >= 1
    /\ path[1][1] \in {"services", "servicesx"}

\* path.trim_matches('/').split('/')
RECURSIVE TrimFront(_)
TrimFront(segs) ==
    IF Len(segs) > 0 /\ Head(segs) = <<>> THEN TrimFront(Tail(segs)) ELSE segs

RECURSIVE TrimBack(_)
TrimBack(segs) ==
    IF Len(segs) > 0 /\ segs[Len(segs)] = <<>>
    THEN TrimBack(SubSeq(segs, 1, Len(segs) - 1)) ELSE segs

Segments(path) ==
    LET t == TrimBack(TrimFront(path))
    IN  IF Len(t) = 0 THEN << <<>> >> ELSE t

(***************************************************************************)
(* The registry: tileset id -> TileMeta.  An Option is the record          *)
(* [some |-> FALSE] or [some |-> TRUE, v |-> value]; a JSON value is token *)
(* text and a JSON object a function from its keys to their values.        *)
(***************************************************************************)
None == [some |-> FALSE]

Some(val) == [some |-> TRUE, v |-> val]

Null == <<"null">>

TileMeta(n, tf, gf, js) ==
    [name        |-> <<"name-of", n>>,
     version     |-> <<"1.0">>,
     tilejson    |-> <<"2.1.0">>,
     scheme      |-> <<"xyz">>,
     id          |-> <<"id-of", n>>,
     tile_format |-> tf,
     grid_format |-> gf,
     bounds      |-> <<"bounds-of", n>>,
     center      |-> Null,
     minzoom     |-> <<"0">>,
     maxzoom     |-> <<"1">>,
     description |-> <<"description-of", n>>,
     attribution |-> Null,
     layer_type  |-> <<"overlay">>,
     legend      |-> Null,
     template    |-> Null,
     json        |-> js]

IdA == <<"a">>

IdB == <<"b">>

IdCD == <<"c", "/", "d">>

MetaA ==
    TileMeta("a", "png", Some("UTFGRID"),
             Some([k \in {"description", "vector_layers"} |->
                     IF k = "description" THEN <<"custom">> ELSE <<"layers">>]))

MetaB == TileMeta("b", "pbf", None, None)

MetaCD ==
    TileMeta("cd", "jpg", None,
             Some([k \in {"name", "tiles", "generator"} |-> <<"override", k>>]))

MetaOf(i) == IF i = IdA THEN MetaA ELSE IF i = IdB THEN MetaB ELSE MetaCD

\* the registries the handler is called with: none, two and three tilesets
Registries ==
    {[i \in ids |-> MetaOf(i)] : ids \in {{}, {IdA, IdB}, {IdA, IdB, IdCD}}}

(***************************************************************************)
(* The requests.                                                           *)
(***************************************************************************)
\* sequences over S of length 0..n
RECURSIVE SeqsUpTo(_, _)
SeqsUpTo(S, n) ==
    IF n = 0 THEN {<<>>}
    ELSE LET shorter == SeqsUpTo(S, n - 1)
         IN  shorter \cup {Append(q, e) : q \in {r \in shorter : Len(r) = n - 1}, e \in S}

\* 2^32 - 1, 2^32 and 2^31 as decimal text
TextU32Max == <<"4", "2", "9", "4", "9", "6", "7", "2", "9", "5">>

TextU32Over == <<"4", "2", "9", "4", "9", "6", "7", "2", "9", "6">>

TextTwo31 == <<"2", "1", "4", "7", "4", "8", "3", "6", "4", "8">>

ZTexts == {Decimal(z) : z \in 0..MaxZ} \cup {TextU32Over}

\* the rows asked for at zoom z: the first, the last of the grid, the first
\* outside it, and the largest values
YTexts(zt) ==
    LET p == ParseU32(zt)
        e == IF p.ok /\ U32Leq(p.v, <<0, 30>>) THEN p.v[2] ELSE 30
    IN  {Decimal(0), Decimal(2 ^ e - 1), Decimal(2 ^ e),
         TextTwo31, TextU32Max, TextU32Over}

XTexts == {Decimal(3), TextU32Over}

Formats == {"json", "pbf", "png"}

\* the tileset ids of tile requests: registered ones and an unknown one
TileIds == {<< <<"a">> >>, << <<"b">> >>, << <<"c">>, <<"d">> >>, << <<"u">> >>}

Tails == SeqsUpTo({<<"map">>}, MaxTail)

TilePaths ==
    UNION {{<< <<"services">> >> \o i \o << <<"tiles">>, zt, xt, yt \o <<".", f>> >> \o t :
              i \in TileIds, xt \in XTexts, yt \in YTexts(zt), f \in Formats,
              t \in Tails} : zt \in ZTexts}

\* the paths that are not tile-shaped: every path of up to MaxSegs segments
\* over a few segments, and some longer ones around the tile grammar
PlainSegs == {<<"services">>, <<"servicesx">>, <<"map">>, <<"a">>, <<"c">>, <<"d">>, <<>>}

NearTilePaths ==
    {<< <<"services">>, <<"tiles">>, <<"0">>, <<"0">>, <<"0", ".", "png">> >>,
     << <<"services">>, <<>>, <<"tiles">>, <<"0">>, <<"0">>, <<"0", ".", "png">> >>,
     << <<"services">>, <<"a">>, <<"tiles">>, <<"0">>, <<"0">>, <<"0">> >>,
     << <<"services">>, <<"a">>, <<"tiles">> >>,
     << <<"services">>, <<"a">>, <<"tiles">>, <<"0">>, <<"0">>, <<"0", ".", "png">>, <<>> >>,
     << <<"services">>, <<"a">>, <<"tiles">>, <<"0">>, <<"0">>, <<"0", ".", "JSON">> >>,
     << <<"services">>, <<"a">>, <<"tiles">>, <<"0">>, <<"0">>, <<"0", ".">> >>,
     << <<"services">>, <<"a">>, <<"tiles">>, <<"0">>, <<"0">>, <<"0", ".", "png">>,
        <<"tiles">>, <<"1">>, <<"0">>, <<"0", ".", "pbf">> >>,
     << <<"servicesx">>, <<"a">>, <<"tiles">>, <<"0">>, <<"0">>, <<"0", ".", "png">> >>,
     << <<"a">>, <<"tiles">>, <<"0">>, <<"0">>, <<"0", ".", "png">> >>}

OtherPaths == (SeqsUpTo(PlainSegs, MaxSegs) \ {<<>>}) \cup NearTilePaths

Host == <<"localhost:3000">>

\* the parts of a request get_service reads: uri().path(), uri().scheme_str(),
\* uri().query() and the host header
Request(p, s, h, q) == [path |-> p, scheme |-> s, host |-> h, query |-> q]

\* scheme and query are read by the listing and the description only; a
\* request without a host header is tried on every path that is not
\* tile-shaped and on the tile-shaped paths of zoom 0
Requests ==
    {Request(p, None, Some(Host), None) : p \in TilePaths}
    \cup {Request(p, None, None, None) :
            p \in {t \in TilePaths : Captures(t).z = Decimal(0)} \cup OtherPaths}
    \cup {Request(p, s, Some(Host), q) :
            p \in OtherPaths, s \in {None, Some("https")}, q \in {None, Some(<<"k=v">>)}}

(***************************************************************************)
(* Responses.                                                              *)
(***************************************************************************)
NOT_FOUND == <<"Not Found">>

NO_CONTENT == <<>>

\* a body is bytes (token text), a JSON object or a JSON array
Bytes(b) == [kind |-> "bytes", v |-> b]

\* Response::builder() and Response::new start from status 200, no header
Response(st, hs, b) == [status |-> st, headers |-> hs, body |-> b]

\* faulty variant: the 404 body left empty
not_found_empty == Response(404, {}, Bytes(<<>>))

not_found == Response(404, {}, Bytes(NOT_FOUND))

\* faulty variant: an absent row surfaced as a server error
no_content_as_error == Response(500, {}, Bytes(<<"Internal Server Error">>))

no_content == Response(204, {}, Bytes(NO_CONTENT))

bad_request(msg) == Response(400, {}, Bytes(msg))

MapHtml == <<"<html><style>", "{{css}}", "</style><script>", "{{js}}", "</script></html>">>

CoreCss == <<"core.min.css">>

CoreJs == <<"core.min.js">>

tile_map ==
    Response(200, {},
             Bytes(Replace(Replace(MapHtml, "{{css}}", CoreCss), "{{js}}", CoreJs)))

\* DataFormat::content_type() of crate::utils, kept symbolic
ContentType(fmt) == <<"content-type-of">> \o fmt

\* utils::encode (gzip) and serde_json::to_vec, kept symbolic
Encode(b) == <<"gzip(">> \o b \o <<")">>

ToVec(doc) == <<"json(">> \o doc \o <<")">>

BlankImage == <<"blank-image">>

NoResponse == Response(0, {}, Bytes(<<>>))

(***************************************************************************)
(* The state: the registry and the build handed to the handler, and the    *)
(* handler's position, locals and outcome for the request in hand.         *)
(***************************************************************************)
VARIABLES
    tilesets,         \* the registry: tileset id -> TileMeta
    overflow_checks,  \* whether the build panics on integer overflow
    pc,               \* "idle", "start", "tile", "dispatch", "done", "panicked"
    request,          \* the request in hand
    matches,          \* the captures of TILE_URL_RE
    tile,             \* the tile parameters: metadata, z, x, flipped y, format
    fetches,          \* the store fetches made for this request, in order
    resp,             \* the response returned
    panic             \* the source line that panicked, 0 if none

vars == <<tilesets, overflow_checks, pc, request, matches, tile, fetches, resp, panic>>

NoRequest == Request(<< <<>> >>, None, None, None)

NoMatch == [matched |-> FALSE]

NoTile == [set |-> FALSE]

Init ==
    /\ tilesets \in Registries
    /\ overflow_checks \in BOOLEAN
    /\ pc = "idle"
    /\ request = NoRequest
    /\ matches = NoMatch
    /\ tile = NoTile
    /\ fetches = <<>>
    /\ resp = NoResponse
    /\ panic = 0

\* the handler is called with a request
Receive ==
    /\ pc = "idle"
    /\ pc' = "start"
    /\ request' \in Requests
    /\ UNCHANGED <<tilesets, overflow_checks, matches, tile, fetches, resp, panic>>

Panic(line) ==
    /\ pc' = "panicked"
    /\ panic' = line
    /\ UNCHANGED resp

Return(r) ==
    /\ pc' = "done"
    /\ resp' = r
    /\ UNCHANGED panic

\* lines 64-72
BaseUrl(req) ==
    (IF req.scheme.some THEN <<req.scheme.v, "://">> ELSE <<"http://">>)
    \o req.host.v \o <<"/", "services">>

\* request.headers()["host"] panics when the request has no host header
HostPanic ==
    /\ pc = "start"
    /\ ~request.host.some
    /\ Panic(71)
    /\ UNCHANGED <<tilesets, overflow_checks, request, matches, tile, fetches>>

\* Some(matches) of TILE_URL_RE.captures(path)
TileMatch ==
    /\ pc = "start"
    /\ request.host.some
    /\ Captures(request.path).matched
    /\ matches' = Captures(request.path)
    /\ pc' = "tile"
    /\ UNCHANGED <<tilesets, overflow_checks, request, tile, fetches, resp, panic>>

\* faulty variant: the row passed to the store as requested
FlipYNone(z, y) == [overflow |-> FALSE, v |-> y]

\* (1 << z) - 1 - y in u32
FlipY(z, y) ==
    LET sh == Shl1(z)
        s1 == Sub(sh.v, <<0, 1>>)
        s2 == Sub(s1.v, y)
    IN  [overflow |-> sh.overflow \/ s1.overflow \/ s2.overflow, v |-> s2.v]

\* lines 76-87: the registry lookup, the three parses and the row flip,
\* each of which panics on failure
TileParams ==
    /\ pc = "tile"
    /\ LET z == ParseU32(matches.z)
           x == ParseU32(matches.x)
           y == ParseU32(matches.y)
       IN  IF matches.tile_path \notin DOMAIN tilesets THEN Panic(77) /\ UNCHANGED tile
           ELSE IF ~z.ok THEN Panic(78) /\ UNCHANGED tile
           ELSE IF ~x.ok THEN Panic(79) /\ UNCHANGED tile
           ELSE IF ~y.ok THEN Panic(80) /\ UNCHANGED tile
           ELSE IF overflow_checks /\ FlipY(z.v, y.v).overflow
                THEN Panic(81) /\ UNCHANGED tile
           ELSE /\ tile' = [set         |-> TRUE,
                            tile_meta   |-> tilesets[matches.tile_path],
                            z           |-> z.v,
                            x           |-> x.v,
                            y           |-> FlipY(z.v, y.v).v,
                            data_format |-> matches.format]
                /\ pc' = "dispatch"
                /\ UNCHANGED <<resp, panic>>
    /\ UNCHANGED <<tilesets, overflow_checks, request, matches, fetches>>

\* a call of get_grid_data or get_tile_data with its result
Fetch(fn, res) == [fn |-> fn, z |-> tile.z, x |-> tile.x, y |-> tile.y, ok |-> res.some]

GridResponse(data) ==
    Response(200,
             {<<"content-type", ContentType(<<"JSON">>)>>, <<"content-encoding", <<"gzip">>>>},
             Bytes(Encode(ToVec(data))))

PbfResponse(data) ==
    Response(200,
             {<<"content-type", ContentType(<<"PBF">>)>>, <<"content-encoding", <<"gzip">>>>},
             Bytes(data))

\* faulty variant: the raster response marked gzip as well
RasterResponseGzip(fmt, data) ==
    Response(200, {<<"content-type", ContentType(fmt)>>, <<"content-encoding", <<"gzip">>>>},
             Bytes(data))

RasterResponse(fmt, data) ==
    Response(200, {<<"content-type", ContentType(fmt)>>}, Bytes(data))

\* lines 90-109: "json"
GridBranch ==
    /\ pc = "dispatch"
    /\ tile.data_format = <<"json">>
    /\ IF ~tile.tile_meta.grid_format.some
       THEN Return(not_found) /\ UNCHANGED fetches
       ELSE \E pool \in BOOLEAN, res \in {None, Some(<<"grid-data">>)} :
              IF ~pool THEN Panic(92) /\ UNCHANGED fetches
              ELSE /\ fetches' = Append(fetches, Fetch("get_grid_data", res))
                   /\ Return(IF res.some THEN GridResponse(res.v) ELSE no_content)
    /\ UNCHANGED <<tilesets, overflow_checks, request, matches, tile>>

\* lines 110-117: "pbf"
PbfBranch ==
    /\ pc = "dispatch"
    /\ tile.data_format = <<"pbf">>
    /\ \E pool \in BOOLEAN, res \in {None, Some(<<"tile-data">>)} :
         IF ~pool THEN Panic(110) /\ UNCHANGED fetches
         ELSE /\ fetches' = Append(fetches, Fetch("get_tile_data", res))
              /\ Return(IF res.some THEN PbfResponse(res.v) ELSE no_content)
    /\ UNCHANGED <<tilesets, overflow_checks, request, matches, tile>>

\* lines 118-131: any other format
RasterBranch ==
    /\ pc = "dispatch"
    /\ tile.data_format \notin {<<"json">>, <<"pbf">>}
    /\ \E pool \in BOOLEAN, res \in {None, Some(<<"tile-data">>)} :
         IF ~pool THEN Panic(120) /\ UNCHANGED fetches
         ELSE /\ fetches' = Append(fetches, Fetch("get_tile_data", res))
              /\ Return(RasterResponse(tile.data_format,
                                       IF res.some THEN res.v ELSE BlankImage))
    /\ UNCHANGED <<tilesets, overflow_checks, request, matches, tile>>

(***************************************************************************)
(* The metadata assembler: lines 134-219.                                  *)
(***************************************************************************)
JsonHeaders == {<<"content-type", <<"application/json">>>>}

\* the orders in which a HashMap may hand out its entries
Orders(S) ==
    {o \in [1..Cardinality(S) -> S] : \A i, j \in DOMAIN o : o[i] = o[j] => i = j}

\* faulty variant: every summary built from the first entry
SummariesOfFirst(reg, order, base_url) ==
    [i \in DOMAIN order |->
        [image_type |-> reg[order[1]].tile_format,
         url        |-> base_url \o <<"/">> \o order[1]]]

\* lines 139-145: one TileSummaryJSON per entry of the registry
Summaries(reg, order, base_url) ==
    [i \in DOMAIN order |->
        [image_type |-> reg[order[i]].tile_format,
         url        |-> base_url \o <<"/">> \o order[i]]]

InServices ==
    /\ pc = "start"
    /\ request.host.some
    /\ ~Captures(request.path).matched
    /\ StartsWithServices(request.path)

\* lines 137-151: /services
Listing ==
    /\ InServices
    /\ Len(Segments(request.path)) = 1
    /\ \E order \in Orders(DOMAIN tilesets) :
         Return(Response(200, JsonHeaders,
                         [kind |-> "json_array",
                          v    |-> Summaries(tilesets, order, BaseUrl(request))]))
    /\ UNCHANGED <<tilesets, overflow_checks, request, matches, tile, fetches>>

\* lines 153-156: the final segment is map
MapPreview ==
    /\ InServices
    /\ Len(Segments(request.path)) # 1
    /\ Segments(request.path)[Len(Segments(request.path))] = <<"map">>
    /\ Return(tile_map)
    /\ UNCHANGED <<tilesets, overflow_checks, request, matches, tile, fetches>>

\* tile_meta_json[k] = v
SetKey(doc, k, val) == [f \in DOMAIN doc \cup {k} |-> IF f = k THEN val ELSE doc[f]]

\* faulty variant: a computed field keeps its value, only new keys are added
OverlayNewOnly(doc, obj) ==
    [f \in DOMAIN doc \cup DOMAIN obj |-> IF f \in DOMAIN doc THEN doc[f] ELSE obj[f]]

\* lines 206-213: the keys of the tileset's json object, assigned in turn
RECURSIVE Overlay(_, _)
Overlay(doc, obj) ==
    IF DOMAIN obj = {} THEN doc
    ELSE LET k == CHOOSE f \in DOMAIN obj : TRUE
         IN  Overlay(SetKey(doc, k, obj[k]), [f \in DOMAIN obj \ {k} |-> obj[f]])

TilesTemplate(base_url, tile_name, ext, query_string) ==
    <<"[">> \o base_url \o <<"/">> \o tile_name
    \o <<"/", "tiles", "/", "{z}", "/", "{x}", "/", "{y}", ".", ext>>
    \o query_string \o <<"]">>

ComputedKeys ==
    {"name", "version", "map", "tiles", "tilejson", "scheme", "id", "format", "grids",
     "bounds", "center", "minzoom", "maxzoom", "description", "attribution", "type",
     "legend", "template"}

\* lines 174-205: the json! document of the computed fields
Computed(tile_meta, base_url, tile_name, query_string) ==
    [f \in ComputedKeys |->
        CASE f = "name"        -> tile_meta.name
          [] f = "version"     -> tile_meta.version
          [] f = "map"         -> base_url \o <<"/">> \o tile_name \o <<"/", "map">>
          [] f = "tiles"       -> TilesTemplate(base_url, tile_name,
                                                tile_meta.tile_format, query_string)
          [] f = "tilejson"    -> tile_meta.tilejson
          [] f = "scheme"      -> tile_meta.scheme
          [] f = "id"          -> tile_meta.id
          [] f = "format"      -> <<tile_meta.tile_format>>
          [] f = "grids"       -> IF tile_meta.grid_format.some
                                  THEN TilesTemplate(base_url, tile_name, "json", query_string)
                                  ELSE Null
          [] f = "bounds"      -> tile_meta.bounds
          [] f = "center"      -> tile_meta.center
          [] f = "minzoom"     -> tile_meta.minzoom
          [] f = "maxzoom"     -> tile_meta.maxzoom
          [] f = "description" -> tile_meta.description
          [] f = "attribution" -> tile_meta.attribution
          [] f = "type"        -> tile_meta.layer_type
          [] f = "legend"      -> tile_meta.legend
          [] f = "template"    -> tile_meta.template]

\* lines 174-213
Description(tile_meta, base_url, tile_name, query_string) ==
    LET doc == Computed(tile_meta, base_url, tile_name, query_string)
    IN  IF tile_meta.json.some THEN Overlay(doc, tile_meta.json.v) ELSE doc

\* faulty variant: the tileset named by the final segment alone
TileNameLast(path) == Segments(path)[Len(Segments(path))]

\* segments[1..].join("/")
TileName(path) == Join(Tail(Segments(path)), "/")

\* lines 158-218: /services/<tileset-path>
Details ==
    /\ InServices
    /\ Len(Segments(request.path)) # 1
    /\ Segments(request.path)[Len(Segments(request.path))] # <<"map">>
    /\ LET tile_name == TileName(request.path)
           query_string == IF request.query.some THEN <<"?">> \o request.query.v ELSE <<>>
       IN  IF tile_name \notin DOMAIN tilesets
           THEN Return(bad_request(<<"Tileset does not exist: ">> \o tile_name))
           ELSE Return(Response(200, JsonHeaders,
                                [kind |-> "json_object",
                                 v    |-> Description(tilesets[tile_name], BaseUrl(request),
                                                      tile_name, query_string)]))
    /\ UNCHANGED <<tilesets, overflow_checks, request, matches, tile, fetches>>

\* line 222: neither a tile path nor under /services
NotFound ==
    /\ pc = "start"
    /\ request.host.some
    /\ ~Captures(request.path).matched
    /\ ~StartsWithServices(request.path)
    /\ Return(not_found)
    /\ UNCHANGED <<tilesets, overflow_checks, request, matches, tile, fetches>>

\* the call is over (returned, or its task died): the next request comes
\* to a fresh call
Reset ==
    /\ pc \in {"done", "panicked"}
    /\ pc' = "idle"
    /\ request' = NoRequest
    /\ matches' = NoMatch
    /\ tile' = NoTile
    /\ fetches' = <<>>
    /\ resp' = NoResponse
    /\ panic' = 0
    /\ UNCHANGED <<tilesets, overflow_checks>>

Next ==
    \/ Receive
    \/ HostPanic
    \/ TileMatch
    \/ TileParams
    \/ GridBranch
    \/ PbfBranch
    \/ RasterBranch
    \/ Listing
    \/ MapPreview
    \/ Details
    \/ NotFound
    \/ Reset

Spec == Init /\ [][Next]_vars

(***************************************************************************)
(* Properties.                                                             *)
(***************************************************************************)
Finished == pc \in {"done", "panicked"}

Returned == pc = "done"

LastOf(q) == q[Len(q)]

GzipHeader == <<"content-encoding", <<"gzip">>>>

\* a digit text that denotes a number below 2 * 10^9, and that number
SmallText(ds) == Len(ds) <= 9 \/ (Len(ds) = 10 /\ ds[1] \in {"0", "1"})

RECURSIVE NatOf(_)
NatOf(ds) ==
    IF Len(ds) = 0 THEN 0
    ELSE 10 * NatOf(SubSeq(ds, 1, Len(ds) - 1)) + DigitVal(ds[Len(ds)])

\* the request's path is a tile path <id>/tiles/<z>/<x>/<y>.<fmt> with z in
\* [0,30] and y in [0, 2^z - 1]
InGrid ==
    /\ matches.matched
    /\ SmallText(matches.z) /\ NatOf(matches.z) <= 30
    /\ SmallText(matches.y) /\ NatOf(matches.y) <= 2 ^ NatOf(matches.z) - 1

\* C1: every request ends in a response and the handling task never panics;
\* stated for the requests that carry a host header (without one, line 71
\* panics on every path).
C1_NeverPanics == request.host.some => pc # "panicked"

\* C2: when the store fetch of a tile request fails, .json (on a tileset with
\* grids) and .pbf answer 204 with an empty body and any other format answers
\* 200 with the blank image as body.
C2_TileAbsent ==
    (Finished /\ Len(fetches) >= 1 /\ ~LastOf(fetches).ok) =>
        /\ Returned
        /\ resp.body.kind = "bytes"
        /\ IF tile.data_format \in {<<"json">>, <<"pbf">>}
           THEN /\ resp.status = 204
                /\ resp.body.v = <<>>
                /\ (tile.data_format = <<"json">> => tile.tile_meta.grid_format.some)
           ELSE /\ resp.status = 200
                /\ resp.body.v = <<"blank-image">>

C2_Witness ==
    /\ Returned
    /\ fetches = <<[fn |-> "get_tile_data", z |-> U32(2), x |-> U32(3), y |-> U32(3),
                    ok |-> FALSE]>>
    /\ tile.data_format = <<"png">>
    /\ resp.status = 200

\* C3: a .json tile request on a registered tileset without grid_format is
\* answered 404 at every coordinate, and on a tileset with grid_format it is
\* never answered 404.
C3_GridCapability ==
    (/\ Finished
     /\ request.host.some
     /\ matches.matched
     /\ matches.format = <<"json">>
     /\ matches.tile_path \in DOMAIN tilesets) =>
        IF tilesets[matches.tile_path].grid_format.some
        THEN ~(Returned /\ resp.status = 404)
        ELSE Returned /\ resp.status = 404

\* C3 where lines 76-81 do not panic (the coordinates fit u32 and, in a build
\* with overflow checks, z < 32 and y < 2^z): 404 exactly when the tileset
\* has no grid_format, and then without a store fetch.
C3_WhereParamsHold ==
    (Finished /\ tile.set /\ tile.data_format = <<"json">>) =>
        IF tile.tile_meta.grid_format.some
        THEN ~(Returned /\ resp.status = 404)
        ELSE Returned /\ resp.status = 404 /\ fetches = <<>>

\* C4: for z in [0,30] and y in [0, 2^z - 1] a store fetch is made with the
\* request's z and x and with row 2^z - 1 - y, the u32 computation of the row
\* does not overflow, and the request makes one fetch at most, after the row
\* was computed.
C4_RowFlip ==
    InGrid =>
        /\ ~FlipY(ParseU32(matches.z).v, ParseU32(matches.y).v).overflow
        /\ panic # 81
        /\ Len(fetches) <= 1
        /\ \A i \in 1..Len(fetches) :
             /\ tile.set
             /\ fetches[i].z = U32(NatOf(matches.z))
             /\ fetches[i].x = ParseU32(matches.x).v
             /\ fetches[i].y[1] < 2 ^ 15
             /\ fetches[i].y[1] * 2 ^ 16 + fetches[i].y[2]
                  = 2 ^ NatOf(matches.z) - 1 - NatOf(matches.y)

C4_Witness ==
    /\ Returned
    /\ matches.matched
    /\ NatOf(matches.z) = 30
    /\ matches.y = <<"0">>
    /\ Len(fetches) = 1
    /\ fetches[1].y = <<16383, 65535>>

\* C5: a response carries Content-Encoding: gzip exactly when it is the 200
\* response of a .json or .pbf tile request whose fetch succeeded.
C5_GzipOnlyOnSuccess ==
    Returned =>
        (GzipHeader \in resp.headers <=>
            /\ resp.status = 200
            /\ tile.set
            /\ tile.data_format \in {<<"json">>, <<"pbf">>}
            /\ Len(fetches) = 1
            /\ fetches[1].ok)

C5_Witness ==
    /\ Returned
    /\ tile.set
    /\ tile.data_format = <<"pbf">>
    /\ GzipHeader \in resp.headers
    /\ resp.body = Bytes(<<"tile-data">>)

\* the path is /services/<id>: services, then the segments of a non-empty id
IsIdPath ==
    /\ Len(request.path) >= 2
    /\ request.path[1] = <<"services">>
    /\ \A i \in 2..Len(request.path) : request.path[i] # <<>>

RequestedId == Join(Tail(request.path), "/")

\* t ends with the text u
EndsWith(t, u) == Len(t) >= Len(u) /\ SubSeq(t, Len(t) - Len(u) + 1, Len(t)) = u

\* C6: /services/<id>, not a tile path and not ending in map, is answered 200
\* with a JSON object holding name, tiles, map, minzoom and maxzoom when <id>
\* is registered, and 400 with a text naming the id when it is not.
C6_Details ==
    (/\ Finished
     /\ request.host.some
     /\ IsIdPath
     /\ ~Captures(request.path).matched
     /\ LastOf(request.path) # <<"map">>) =>
        /\ Returned
        /\ IF RequestedId \in DOMAIN tilesets
           THEN /\ resp.status = 200
                /\ resp.body.kind = "json_object"
                /\ {"name", "tiles", "map", "minzoom", "maxzoom"} \subseteq DOMAIN resp.body.v
           ELSE /\ resp.status = 400
                /\ resp.body.kind = "bytes"
                /\ Len(resp.body.v) > Len(RequestedId)
                /\ EndsWith(resp.body.v, RequestedId)

C6_Witness ==
    /\ Returned
    /\ request.path = << <<"services">>, <<"c">>, <<"d">> >>
    /\ IdCD \in DOMAIN tilesets
    /\ resp.status = 200
    /\ resp.body.kind = "json_object"

\* C7: in the description document every key of the tileset's json object has
\* the object's value, every computed key outside the object has its computed
\* value, and every computed key is present.
C7_OverridesWin ==
    (Returned /\ resp.body.kind = "json_object") =>
        LET tm  == tilesets[TileName(request.path)]
            qs  == IF request.query.some THEN <<"?">> \o request.query.v ELSE <<>>
            cmp == Computed(tm, BaseUrl(request), TileName(request.path), qs)
            ovr == IF tm.json.some THEN tm.json.v ELSE <<>>
            doc == resp.body.v
        IN  /\ DOMAIN doc = ComputedKeys \cup DOMAIN ovr
            /\ \A k \in DOMAIN ovr : doc[k] = ovr[k]
            /\ \A k \in ComputedKeys \ DOMAIN ovr : doc[k] = cmp[k]

C7_Witness ==
    /\ Returned
    /\ resp.body.kind = "json_object"
    /\ TileName(request.path) = IdA
    /\ resp.body.v["description"] = <<"custom">>
    /\ resp.body.v["vector_layers"] = <<"layers">>
    /\ resp.body.v["name"] = <<"name-of", "a">>

C9_MapPreview ==
    (/\ Finished
     /\ request.host.some
     /\ Len(request.path) >= 2
     /\ request.path[1] = <<"services">>
     /\ LastOf(request.path) = <<"map">>) =>
        /\ Returned
        /\ resp.status = 200
        /\ resp.body.kind = "bytes"
        /\ "{{css}}" \notin {resp.body.v[i] : i \in DOMAIN resp.body.v}
        /\ "{{js}}" \notin {resp.body.v[i] : i \in DOMAIN resp.body.v}
        /\ "core.min.css" \in {resp.body.v[i] : i \in DOMAIN resp.body.v}
        /\ ~tile.set
        /\ fetches = <<>>

\* C9 for the paths that TILE_URL_RE does not match: the preview, without a
\* registry lookup or a store fetch.
C9_WhereNoTileMatch ==
    (/\ Finished
     /\ request.host.some
     /\ Len(request.path) >= 2
     /\ request.path[1] = <<"services">>
     /\ LastOf(request.path) = <<"map">>
     /\ ~Captures(request.path).matched) =>
        /\ Returned
        /\ resp = tile_map
        /\ "{{css}}" \notin {resp.body.v[i] : i \in DOMAIN resp.body.v}
        /\ "{{js}}" \notin {resp.body.v[i] : i \in DOMAIN resp.body.v}
        /\ ~tile.set
        /\ fetches = <<>>

\* C10: GET /services is answered 200 with a JSON array of as many summaries
\* as the registry has tilesets, one for each id, with url = base_url/<id> and
\* image_type = the tileset's tile_format.
C10_Listing ==
    (/\ Finished
     /\ request.host.some
     /\ request.path = << <<"services">> >>) =>
        /\ Returned
        /\ resp.status = 200
        /\ resp.body.kind = "json_array"
        /\ Len(resp.body.v) = Cardinality(DOMAIN tilesets)
        /\ \A i \in DOMAIN tilesets :
             \E n \in DOMAIN resp.body.v :
                /\ resp.body.v[n].url =
                     (IF request.scheme.some THEN <<request.scheme.v, "://">>
                      ELSE <<"http://">>)
                     \o request.host.v \o <<"/", "services", "/">> \o i
                /\ resp.body.v[n].image_type = tilesets[i].tile_format

C10_Witness ==
    /\ Returned
    /\ request.path = << <<"services">> >>
    /\ Cardinality(DOMAIN tilesets) = 3
    /\ Len(resp.body.v) = 3
    /\ resp.body.v[1].url = <<"http://", "localhost:3000", "/", "services", "/", "c", "/", "d">>
    /\ resp.body.v[1].image_type = "jpg"

====
